---- MODULE Spec2Model ----
(***************************************************************************)
(* A model of the movie-catalog CLI: the SQLite-backed store               *)
(* (storage/movie_storage_sql.py), the interactive service layer (main.py),*)
(* the metadata client (movie_api.py) and the website export               *)
(* (website_generator.py).                                                 *)
(*                                                                         *)
(* Strings are sequences of one-character strings, so that strip(),        *)
(* lower() and exact comparison are computed and not assumed.  Ratings are *)
(* integers (the unit is irrelevant to every property below).              *)
(***************************************************************************)
EXTENDS Integers, Sequences, FiniteSets, TLC

VARIABLES
  users,      \* table users: set of [id, name]
  user_seq,   \* sqlite_sequence of users: the largest id ever assigned
  movies,     \* table movies: set of [user_id, title, year, rating, poster]
  pc,         \* position of the interactive process
  user_id,    \* main(): the active profile's id
  user_name,  \* main(): the active profile's name
  last,       \* the last call made and what it returned or raised
  snapshot,   \* a MovieData value handed to a pure view function
  query,      \* a title handed to a pure view function
  result,     \* what the pure view function returned
  sess        \* concurrent sessions: each one's position in add_movie and locals

vars == <<users, user_seq, movies, pc, user_id, user_name, last, snapshot, query, result,
          sess>>

storeVars == <<users, user_seq, movies>>
sessionVars == <<pc, user_id, user_name>>
viewVars == <<snapshot, query, result>>

----------------------------------------------------------------------------
(* Bounds and input domains *)

\* Largest number of rows of table movies the model lets the store hold.
MaxRows == 2

\* Largest rating value drawn as an input.
MaxRating == 3

\* Largest number of entries of a snapshot drawn for the pure view functions.
MaxSnapshot == 3

Ratings == 1..MaxRating
Years == {2010, 2014}
Posters == {"", "u"}
Names == {<<"x">>, <<"y">>}
OwnerIds == {1, 2}

\* Arguments handed to the store when its API is called directly: two titles
\* that differ only by case, two ratings.
StoreTitles == {<<"a">>, <<"A">>}
StoreRatings == {7, 9}

----------------------------------------------------------------------------
(* Python values *)

None == <<>>
Some(x) == <<x>>

\* Python truthiness of an Optional[str]: None and "" are falsy.
Truthy(opt) == opt # None /\ opt[1] # <<>>

IsSpace(c) == c = " "

lower_char(c) ==
  CASE c = "A" -> "a"
    [] c = "B" -> "b"
    [] OTHER -> c

\* Code point of a character: the order of BINARY collation.
Code(c) ==
  CASE c = " " -> 32
    [] c = "A" -> 65
    [] c = "B" -> 66
    [] c = "a" -> 97
    [] c = "b" -> 98
    [] c = "x" -> 120
    [] c = "y" -> 121

RECURSIVE lstrip(_)
lstrip(s) == IF s # <<>> /\ IsSpace(Head(s)) THEN lstrip(Tail(s)) ELSE s

RECURSIVE rstrip(_)
rstrip(s) ==
  IF s # <<>> /\ IsSpace(s[Len(s)]) THEN rstrip(SubSeq(s, 1, Len(s) - 1)) ELSE s

\* str.strip()
strip(s) == rstrip(lstrip(s))

\* str.lower()
lower(s) == [i \in 1..Len(s) |-> lower_char(s[i])]

\* s < t in code-point order
RECURSIVE StrLess(_, _)
StrLess(s, t) ==
  IF t = <<>> THEN FALSE
  ELSE IF s = <<>> THEN TRUE
  ELSE IF Code(Head(s)) # Code(Head(t)) THEN Code(Head(s)) < Code(Head(t))
  ELSE StrLess(Tail(s), Tail(t))

\* All sequences that enumerate the finite set S once each.
Enumerations(S) ==
  {f \in [1..Cardinality(S) -> S] : \A i, j \in 1..Cardinality(S) : i # j => f[i] # f[j]}

----------------------------------------------------------------------------
(* storage/movie_storage_sql.py *)

\* SQLite enforces FOREIGN KEY clauses only after PRAGMA foreign_keys = ON,
\* which the engine is never given.
ForeignKeysEnforced == FALSE

\* UNIQUE(name) of table users
UsersUniqueViolation(us, name) == \E u \in us : u.name = name

\* Faulty variant: the constraint declared as UNIQUE(title), forgetting the owner.
MoviesUniqueViolation_title_only(ms, uid, title) ==
  \E m \in ms : m.title = title

\* UNIQUE(user_id, title) of table movies: BINARY (exact) comparison
MoviesUniqueViolation(ms, uid, title) ==
  \E m \in ms : m.user_id = uid /\ m.title = title

ForeignKeyViolation(us, uid) ==
  ForeignKeysEnforced /\ ~ \E u \in us : u.id = uid

\* SELECT id, name FROM users ORDER BY name
list_users(us) ==
  CHOOSE f \in Enumerations(us) :
    \A i, j \in 1..Len(f) : i < j => StrLess(f[i].name, f[j].name)

\* SELECT id FROM users WHERE name = :name
get_user_id(us, name) ==
  IF \E u \in us : u.name = name
  THEN Some((CHOOSE u \in us : u.name = name).id)
  ELSE None

\* Faulty variant: INSERT OR REPLACE, which replaces a row of the same name.
create_user_or_replace(us, seq, name) ==
  LET us2 == {u \in us : u.name # name} \cup {[id |-> seq + 1, name |-> name]}
  IN [users |-> us2, user_seq |-> seq + 1, raised |-> "none",
      value |-> Some(seq + 1)]

\* INSERT INTO users (name); then the id is looked up by name
create_user(us, seq, name) ==
  IF UsersUniqueViolation(us, name)
  THEN [users |-> us, user_seq |-> seq, raised |-> "ValueError", value |-> None]
  ELSE LET us2 == us \cup {[id |-> seq + 1, name |-> name]}
           found == get_user_id(us2, name)
       IN [users |-> us2, user_seq |-> seq + 1,
           raised |-> IF found = None THEN "RuntimeError" ELSE "none",
           value |-> found]

\* The rows SELECT ... FROM movies WHERE user_id = :user_id can return: SQL
\* leaves their order open.
fetchall(ms, uid) == Enumerations({m \in ms : m.user_id = uid})

\* d[key] = value on an insertion-ordered dict kept as a sequence of entries
dict_put(d, e) ==
  IF \E i \in 1..Len(d) : d[i].title = e.title
  THEN [i \in 1..Len(d) |-> IF d[i].title = e.title THEN e ELSE d[i]]
  ELSE Append(d, e)

RECURSIVE dict_of_rows(_)
dict_of_rows(rows) ==
  IF rows = <<>> THEN <<>>
  ELSE LET r == rows[Len(rows)]
       IN dict_put(dict_of_rows(SubSeq(rows, 1, Len(rows) - 1)),
                   [title |-> r.title, year |-> r.year, rating |-> r.rating,
                    poster |-> r.poster])

\* The MovieData values get_movies(user_id) can return (one per row order).
get_movies(ms, uid) == {dict_of_rows(rows) : rows \in fetchall(ms, uid)}

\* Faulty variant: the poster parameter is not bound, the column gets "".
movie_storage_add_movie_no_poster(us, ms, uid, title, year, rating, poster) ==
  IF \E m \in ms : m.user_id = uid /\ m.title = title
  THEN [movies |-> ms, raised |-> "ValueError"]
  ELSE [movies |-> ms \cup {[user_id |-> uid, title |-> title, year |-> year,
                             rating |-> rating, poster |-> ""]},
        raised |-> "none"]

\* Faulty variant: the table declared without UNIQUE(user_id, title).
movie_storage_add_movie_unchecked(us, ms, uid, title, year, rating, poster) ==
  [movies |-> ms \cup {[user_id |-> uid, title |-> title, year |-> year,
                        rating |-> rating, poster |-> poster]},
   raised |-> "none"]

\* INSERT INTO movies; IntegrityError becomes ValueError
movie_storage_add_movie(us, ms, uid, title, year, rating, poster) ==
  IF MoviesUniqueViolation(ms, uid, title) \/ ForeignKeyViolation(us, uid)
  THEN [movies |-> ms, raised |-> "ValueError"]
  ELSE [movies |-> ms \cup {[user_id |-> uid, title |-> title, year |-> year,
                             rating |-> rating, poster |-> poster]},
        raised |-> "none"]

\* Faulty variant: DELETE ... WHERE title = :title, for every owner.
movie_storage_delete_movie_any_owner(ms, uid, title) ==
  LET hit == {m \in ms : m.title = title}
  IN [movies |-> ms \ hit,
      raised |-> IF Cardinality(hit) = 0 THEN "KeyError" ELSE "none"]

\* DELETE FROM movies WHERE user_id = :user_id AND title = :title
movie_storage_delete_movie(ms, uid, title) ==
  LET hit == {m \in ms : m.user_id = uid /\ m.title = title}
  IN [movies |-> ms \ hit,
      raised |-> IF Cardinality(hit) = 0 THEN "KeyError" ELSE "none"]

\* Faulty variant: UPDATE ... SET rating = :rating, poster = '' for the row.
movie_storage_update_movie_clears_poster(ms, uid, title, rating) ==
  LET hit == {m \in ms : m.user_id = uid /\ m.title = title}
  IN [movies |-> (ms \ hit)
                 \cup {[m EXCEPT !.rating = rating, !.poster = ""] : m \in hit},
      raised |-> IF Cardinality(hit) = 0 THEN "KeyError" ELSE "none"]

\* UPDATE movies SET rating = :rating WHERE user_id = :user_id AND title = :title
movie_storage_update_movie(ms, uid, title, rating) ==
  LET hit == {m \in ms : m.user_id = uid /\ m.title = title}
  IN [movies |-> (ms \ hit) \cup {[m EXCEPT !.rating = rating] : m \in hit},
      raised |-> IF Cardinality(hit) = 0 THEN "KeyError" ELSE "none"]

----------------------------------------------------------------------------
(* movie_api.py *)

\* What the HTTP request can come back with: no usable answer, or a JSON
\* object.  Year and imdbRating are None when int() or float() rejects them.
OmdbTitles == {<<"a">>, <<"A">>, <<" ">>}
OmdbResponses ==
  {[kind |-> "unreachable", Response |-> "", Title |-> <<>>, Year |-> None,
    imdbRating |-> None, Poster |-> ""]}
  \cup {[kind |-> "json", Response |-> "False", Title |-> <<>>, Year |-> None,
         imdbRating |-> None, Poster |-> ""]}
  \cup {[kind |-> "json", Response |-> "True", Title |-> t, Year |-> y,
         imdbRating |-> r, Poster |-> p] :
          t \in OmdbTitles, y \in {Some(2010), None}, r \in {Some(7), None},
          p \in {"N/A", "u"}}

NoMovie == [title |-> <<>>, year |-> 0, rating |-> 0, poster |-> ""]

\* Faulty variant: an empty fetched title is not replaced by the requested one.
fetch_movie_from_omdb_no_fallback(title, response) ==
  IF response.kind = "unreachable"
  THEN [raised |-> "ApiConnectionError", value |-> NoMovie]
  ELSE IF response.Response # "True" \/ response.Year = None
          \/ response.imdbRating = None
  THEN [raised |-> "MovieNotFoundError", value |-> NoMovie]
  ELSE [raised |-> "none",
        value |-> [title |-> strip(response.Title),
                   year |-> response.Year[1],
                   rating |-> response.imdbRating[1],
                   poster |-> IF response.Poster \in {"N/A", "None"}
                              THEN "" ELSE response.Poster]]

fetch_movie_from_omdb(title, response) ==
  IF response.kind = "unreachable"
  THEN [raised |-> "ApiConnectionError", value |-> NoMovie]
  ELSE IF response.Response # "True"
  THEN [raised |-> "MovieNotFoundError", value |-> NoMovie]
  ELSE IF response.Year = None \/ response.imdbRating = None
  THEN [raised |-> "MovieNotFoundError", value |-> NoMovie]
  ELSE LET fetched_title == strip(response.Title)
       IN [raised |-> "none",
           value |-> [title |-> IF fetched_title = <<>> THEN title ELSE fetched_title,
                      year |-> response.Year[1],
                      rating |-> response.imdbRating[1],
                      poster |-> IF response.Poster \in {"N/A", "None"}
                                 THEN "" ELSE response.Poster]]

----------------------------------------------------------------------------
(* website_generator.py *)

\* def generate_website(movies, app_title="My Movie App")
generate_website_params == <<"movies", "app_title">>

\* Python's binding of a call's arguments to a signature: TypeError when a
\* keyword names no parameter or one already given by position.
call_binds(params, n_positional, keywords) ==
  /\ n_positional <= Len(params)
  /\ \A k \in keywords : \E i \in (n_positional + 1)..Len(params) : params[i] = k

generate_website(template_exists) ==
  IF ~template_exists THEN "FileNotFoundError" ELSE "none"

----------------------------------------------------------------------------
(* main.py: pure helpers *)

\* Faulty variant: text.lower(), without strip().
normalize_without_strip(text) == lower(text)

normalize(text) == lower(strip(text))

RECURSIVE find_from(_, _, _)
find_from(movies_, normalized_title, i) ==
  IF i > Len(movies_) THEN None
  ELSE IF normalize(movies_[i].title) = normalized_title THEN Some(movies_[i].title)
  ELSE find_from(movies_, normalized_title, i + 1)

\* Faulty variant: the typed title is returned in place of the stored key.
find_exact_key_returns_query(movies_, title) ==
  IF find_from(movies_, normalize(title), 1) = None THEN None ELSE Some(title)

\* Faulty variant: keys are compared with the title as typed (key == title).
find_exact_key_case_sensitive(movies_, title) ==
  IF \E i \in 1..Len(movies_) : movies_[i].title = title THEN Some(title) ELSE None

\* for key in movies: if normalize(key) == normalized_title: return key
find_exact_key_case_insensitive(movies_, title) ==
  find_from(movies_, normalize(title), 1)

RECURSIVE max_of(_)
max_of(xs) ==
  IF Len(xs) = 1 THEN xs[1]
  ELSE LET m == max_of(Tail(xs)) IN IF xs[1] >= m THEN xs[1] ELSE m

RECURSIVE min_of(_)
min_of(xs) ==
  IF Len(xs) = 1 THEN xs[1]
  ELSE LET m == min_of(Tail(xs)) IN IF xs[1] <= m THEN xs[1] ELSE m

RECURSIVE sum_of(_)
sum_of(xs) == IF xs = <<>> THEN 0 ELSE xs[1] + sum_of(Tail(xs))

RECURSIVE insert_sorted(_, _)
insert_sorted(x, xs) ==
  IF xs = <<>> THEN <<x>>
  ELSE IF x <= xs[1] THEN <<x>> \o xs
  ELSE <<xs[1]>> \o insert_sorted(x, Tail(xs))

RECURSIVE sorted(_)
sorted(xs) == IF xs = <<>> THEN <<>> ELSE insert_sorted(xs[1], sorted(Tail(xs)))

\* statistics.median: the middle value, or the mean of the two middle values;
\* a quotient is kept as numerator and denominator.
median(xs) ==
  LET data == sorted(xs)
      n == Len(data)
  IN IF n % 2 = 1 THEN [num |-> data[(n \div 2) + 1], den |-> 1]
     ELSE [num |-> data[n \div 2] + data[(n \div 2) + 1], den |-> 2]

\* [t for t, d in movies.items() if d["rating"] == r]
RECURSIVE titles_rated(_, _)
titles_rated(movies_, r) ==
  IF movies_ = <<>> THEN <<>>
  ELSE (IF movies_[1].rating = r THEN <<movies_[1].title>> ELSE <<>>)
       \o titles_rated(Tail(movies_), r)

\* Faulty variant: only the first title of the extreme rating is reported.
compute_stats_first_only(movies_) ==
  IF movies_ = <<>> THEN None
  ELSE LET ratings == [i \in 1..Len(movies_) |-> movies_[i].rating]
           max_rating == max_of(ratings)
           min_rating == min_of(ratings)
       IN Some([avg |-> [num |-> sum_of(ratings), den |-> Len(ratings)],
                median |-> median(ratings),
                max |-> max_rating,
                min |-> min_rating,
                best |-> SubSeq(titles_rated(movies_, max_rating), 1, 1),
                worst |-> SubSeq(titles_rated(movies_, min_rating), 1, 1)])

compute_stats(movies_) ==
  IF movies_ = <<>> THEN None
  ELSE LET ratings == [i \in 1..Len(movies_) |-> movies_[i].rating]
           max_rating == max_of(ratings)
           min_rating == min_of(ratings)
       IN Some([avg |-> [num |-> sum_of(ratings), den |-> Len(ratings)],
                median |-> median(ratings),
                max |-> max_rating,
                min |-> min_rating,
                best |-> titles_rated(movies_, max_rating),
                worst |-> titles_rated(movies_, min_rating)])

----------------------------------------------------------------------------
(* The record of the last call *)

NoCall ==
  [op |-> "none", user_id |-> 0, name |-> <<>>, title |-> <<>>, key |-> None,
   year |-> 0, rating |-> 0, poster |-> "", fetch |-> "none",
   raised |-> "none", value |-> None]

InitStore == users = {} /\ user_seq = 0 /\ movies = {}
InitSession == pc = "start" /\ user_id = 0 /\ user_name = <<>>
InitViews == snapshot = <<>> /\ query = <<>> /\ result = [op |-> "none", value |-> None]

\* Sessions that run add_movie side by side on one database.
Sessions == {1, 2}

InSession ==
  [pc |-> "menu", movies_ |-> <<>>, title |-> <<>>, key |-> None,
   fetch |-> "none", raised |-> "none"]

InitSessions == sess = [s \in Sessions |-> InSession]

----------------------------------------------------------------------------
(* The store's public API called directly, with any arguments *)

StoreCreateUser ==
  \E name \in Names :
    LET r == create_user(users, user_seq, name)
    IN /\ users' = r.users
       /\ user_seq' = r.user_seq
       /\ last' = [NoCall EXCEPT !.op = "create_user", !.name = name,
                                 !.raised = r.raised, !.value = r.value]
       /\ UNCHANGED <<movies, sessionVars, viewVars, sess>>

StoreAddMovie ==
  \E uid \in OwnerIds, title \in StoreTitles, year \in Years,
     rating \in StoreRatings, poster \in Posters :
    LET r == movie_storage_add_movie(users, movies, uid, title, year, rating, poster)
    IN /\ Cardinality(r.movies) <= MaxRows
       /\ movies' = r.movies
       /\ last' = [NoCall EXCEPT !.op = "add_movie", !.user_id = uid,
                                 !.title = title, !.year = year, !.rating = rating,
                                 !.poster = poster, !.raised = r.raised]
       /\ UNCHANGED <<users, user_seq, sessionVars, viewVars, sess>>

StoreDeleteMovie ==
  \E uid \in OwnerIds, title \in StoreTitles :
    LET r == movie_storage_delete_movie(movies, uid, title)
    IN /\ movies' = r.movies
       /\ last' = [NoCall EXCEPT !.op = "delete_movie", !.user_id = uid,
                                 !.title = title, !.raised = r.raised]
       /\ UNCHANGED <<users, user_seq, sessionVars, viewVars, sess>>

StoreUpdateMovie ==
  \E uid \in OwnerIds, title \in StoreTitles, rating \in StoreRatings :
    LET r == movie_storage_update_movie(movies, uid, title, rating)
    IN /\ movies' = r.movies
       /\ last' = [NoCall EXCEPT !.op = "update_movie", !.user_id = uid,
                                 !.title = title, !.rating = rating,
                                 !.raised = r.raised]
       /\ UNCHANGED <<users, user_seq, sessionVars, viewVars, sess>>

InitStoreApi == InitStore /\ InitSession /\ InitViews /\ InitSessions /\ last = NoCall

NextStore ==
  \/ StoreCreateUser
  \/ StoreAddMovie
  \/ StoreDeleteMovie
  \/ StoreUpdateMovie

SpecStore == InitStoreApi /\ [][NextStore]_vars

----------------------------------------------------------------------------
(* Properties of the store *)

\* The (key, value) pairs of a MovieData value.
Items(d) == {d[i] : i \in 1..Len(d)}

RowsOf(ms, uid, title) == {m \in ms : m.user_id = uid /\ m.title = title}

EntryOfCall(c) ==
  [title |-> c.title, year |-> c.year, rating |-> c.rating, poster |-> c.poster]

RowOfCall(c) ==
  [user_id |-> c.user_id, title |-> c.title, year |-> c.year,
   rating |-> c.rating, poster |-> c.poster]

ExactUnique(ms) ==
  \A m1, m2 \in ms : (m1.user_id = m2.user_id /\ m1.title = m2.title) => m1 = m2

\* C3: an add_movie whose exact (user_id, title) pair is not stored succeeds,
\* and every get_movies of that owner then holds the title with exactly the
\* inserted year, rating and poster, next to exactly the entries it held
\* before; every other owner's get_movies is as before.
C3_InsertThenList ==
  [][ (last'.op = "add_movie" /\ RowsOf(movies, last'.user_id, last'.title) = {})
      => /\ last'.raised = "none"
         /\ \A u \in OwnerIds :
              \A before \in get_movies(movies, u), after \in get_movies(movies', u) :
                /\ Items(after) = IF u = last'.user_id
                                  THEN Items(before) \cup {EntryOfCall(last')}
                                  ELSE Items(before)
                /\ Len(after) = Cardinality(Items(after))
                /\ u = last'.user_id =>
                     \A i \in 1..Len(after) :
                       after[i].title = last'.title => after[i] = EntryOfCall(last')
    ]_vars

\* C3 witness: an insert has succeeded for an owner who already held another
\* title, and the listing holds both.
C3_Witness ==
  /\ last.op = "add_movie" /\ last.raised = "none" /\ last.poster = "u"
  /\ \E d \in get_movies(movies, last.user_id) :
       Len(d) = 2 /\ EntryOfCall(last) \in Items(d)

\* C4: an add_movie of a stored exact (user_id, title) pair raises the
\* duplicate error and changes no row; any other add_movie (the same title for
\* another owner included) succeeds and adds its row; so (user_id, title) is
\* unique under exact comparison after every step.
C4_ExactDuplicateRejected ==
  [][ /\ ExactUnique(movies')
      /\ last'.op = "add_movie" =>
           IF RowsOf(movies, last'.user_id, last'.title) # {}
           THEN last'.raised = "ValueError" /\ movies' = movies
           ELSE last'.raised = "none" /\ movies' = movies \cup {RowOfCall(last')}
    ]_vars

\* C4 witness: the duplicate insert was refused while the same title is held
\* by both owners.
C4_Witness ==
  /\ last.op = "add_movie" /\ last.raised = "ValueError"
  /\ RowsOf(movies, last.user_id, last.title) # {}
  /\ \E m \in movies : m.title = last.title /\ m.user_id # last.user_id

\* C5: delete_movie and update_movie raise the not-found error exactly when no
\* row has that exact (user_id, title); then the store is unchanged; otherwise
\* one row matches, and every other row is left as it was.
C5_NotFoundExactly ==
  [][ last'.op \in {"delete_movie", "update_movie"} =>
        LET hit == RowsOf(movies, last'.user_id, last'.title)
        IN /\ last'.raised = (IF hit = {} THEN "KeyError" ELSE "none")
           /\ hit = {} => movies' = movies /\ users' = users /\ user_seq' = user_seq
           /\ hit # {} =>
                /\ Cardinality(hit) = 1
                /\ movies \ hit \subseteq movies'
                /\ movies' \ (movies \ hit) =
                     (IF last'.op = "delete_movie" THEN {}
                      ELSE RowsOf(movies', last'.user_id, last'.title))
                /\ Cardinality(movies') =
                     Cardinality(movies) - (IF last'.op = "delete_movie" THEN 1 ELSE 0)
                /\ users' = users
    ]_vars

\* C5 witness: a delete was refused as not found while the title is stored for
\* the other owner.
C5_Witness ==
  /\ last.op = "delete_movie" /\ last.raised = "KeyError"
  /\ \E m \in movies : m.title = last.title /\ m.user_id # last.user_id

\* C6: a successful update_movie replaces the rating of the one matching row
\* and nothing else: year and poster of that row, the owner's titles and every
\* other row are as before, and get_movies shows the new rating.
C6_UpdateChangesOnlyRating ==
  [][ (last'.op = "update_movie" /\ last'.raised = "none") =>
        \E m \in RowsOf(movies, last'.user_id, last'.title) :
          /\ movies' = (movies \ {m}) \cup {[m EXCEPT !.rating = last'.rating]}
          /\ \A u \in OwnerIds :
               {x.title : x \in {y \in movies' : y.user_id = u}}
                 = {x.title : x \in {y \in movies : y.user_id = u}}
          /\ \A after \in get_movies(movies', last'.user_id) :
               \E i \in 1..Len(after) :
                 after[i] = [title |-> m.title, year |-> m.year,
                             rating |-> last'.rating, poster |-> m.poster]
    ]_vars

\* C6 witness: an update has succeeded on a row with a poster, the row holds
\* the new rating, and the same owner holds another row of another rating.
C6_Witness ==
  /\ last.op = "update_movie" /\ last.raised = "none"
  /\ \E m \in RowsOf(movies, last.user_id, last.title) :
       /\ m.rating = last.rating /\ m.poster = "u"
       /\ \E o \in movies : o.user_id = m.user_id /\ o.title # m.title
                            /\ o.rating # m.rating

NamesUnique(us) == \A u1, u2 \in us : u1.name = u2.name => u1 = u2
IdsUnique(us) == \A u1, u2 \in us : u1.id = u2.id => u1 = u2

\* C7: create_user succeeds exactly when no profile has exactly that name; it
\* then returns an id no profile had, under which get_user_id finds the name;
\* otherwise it raises the duplicate error and the profiles are unchanged.
\* Names and ids stay unique, and no profile is ever changed or removed.
C7_CreateProfile ==
  [][ /\ users \subseteq users'
      /\ NamesUnique(users') /\ IdsUnique(users')
      /\ last'.op = "create_user" =>
           IF \E u \in users : u.name = last'.name
           THEN last'.raised = "ValueError" /\ users' = users
           ELSE /\ last'.raised = "none"
                /\ last'.value # None
                /\ \A u \in users : u.id # last'.value[1]
                /\ get_user_id(users', last'.name) = last'.value
                /\ users' = users \cup {[id |-> last'.value[1], name |-> last'.name]}
    ]_vars

\* C7 witness: a second profile has been created and is found under its id.
C7_Witness ==
  /\ last.op = "create_user" /\ last.raised = "none"
  /\ Cardinality(users) = 2
  /\ get_user_id(users, last.name) = last.value

----------------------------------------------------------------------------
(* main.py: the interactive session *)

\* What the user can type at a name or title prompt.
TypedNames == {<<"x">>, <<"y", " ">>, <<" ">>}
TypedTitles == {<<"A", " ">>, <<"b">>, <<" ">>}
ManualYears == {2014}
ManualRatings == {9}
UpdateRatings == {7, 9}

\* ask_non_empty returns the first stripped input that is not empty.
ask_non_empty(inputs) == {strip(raw) : raw \in {i \in inputs : strip(i) # <<>>}}

\* main() wraps no call in try/except: an exception that leaves a handler
\* ends the process.
AfterCall(raised) == IF raised = "none" THEN "menu" ELSE "crashed"

\* One pass of the loop of select_or_create_user.
select_or_create_user ==
  /\ pc = "select_user"
  /\ LET listed == list_users(users)
     IN \E choice \in 0..(Len(listed) + 2) :
          IF 1 <= choice /\ choice <= Len(listed)
          THEN /\ user_id' = listed[choice].id
               /\ user_name' = listed[choice].name
               /\ pc' = "menu"
               /\ last' = [NoCall EXCEPT !.op = "select_user",
                                         !.name = listed[choice].name,
                                         !.value = Some(listed[choice].id)]
               /\ UNCHANGED <<storeVars, viewVars, sess>>
          ELSE IF choice = Len(listed) + 1
          THEN \E new_name \in ask_non_empty(TypedNames) :
                 LET r == create_user(users, user_seq, new_name)
                 IN /\ users' = r.users
                    /\ user_seq' = r.user_seq
                    /\ last' = [NoCall EXCEPT !.op = "create_user", !.name = new_name,
                                              !.raised = r.raised, !.value = r.value]
                    /\ IF r.raised = "ValueError"
                       THEN UNCHANGED <<pc, user_id, user_name>>
                       ELSE IF r.raised = "none"
                       THEN /\ user_id' = r.value[1]
                            /\ user_name' = new_name
                            /\ pc' = "menu"
                       ELSE /\ pc' = "crashed"
                            /\ UNCHANGED <<user_id, user_name>>
                    /\ UNCHANGED <<movies, viewVars, sess>>
          ELSE /\ last' = [NoCall EXCEPT !.op = "invalid_choice"]
               /\ UNCHANGED <<storeVars, sessionVars, viewVars, sess>>

\* Menu entry 2.
add_movie ==
  /\ pc = "menu"
  /\ \E movies_ \in get_movies(movies, user_id), title \in ask_non_empty(TypedTitles) :
       IF Truthy(find_exact_key_case_insensitive(movies_, title))
       THEN /\ last' = [NoCall EXCEPT !.op = "add_movie", !.user_id = user_id,
                                      !.title = title, !.fetch = "not_called"]
            /\ UNCHANGED <<storeVars, sessionVars, viewVars, sess>>
       ELSE \E response \in OmdbResponses :
              LET fetched == fetch_movie_from_omdb(title, response)
              IN IF fetched.raised = "MovieNotFoundError"
                 THEN /\ last' = [NoCall EXCEPT !.op = "add_movie", !.user_id = user_id,
                                                !.title = title,
                                                !.fetch = "MovieNotFoundError"]
                      /\ UNCHANGED <<storeVars, sessionVars, viewVars, sess>>
                 ELSE IF fetched.raised = "ApiConnectionError"
                 THEN \E year \in ManualYears, rating \in ManualRatings :
                        LET r == movie_storage_add_movie(users, movies, user_id, title,
                                                         year, rating, "")
                        IN /\ Cardinality(r.movies) <= MaxRows
                           /\ movies' = r.movies
                           /\ pc' = AfterCall(r.raised)
                           /\ last' = [NoCall EXCEPT !.op = "add_movie",
                                         !.user_id = user_id, !.title = title,
                                         !.fetch = "ApiConnectionError",
                                         !.key = Some(title), !.year = year,
                                         !.rating = rating, !.poster = "",
                                         !.raised = r.raised]
                           /\ UNCHANGED <<users, user_seq, user_id, user_name, viewVars, sess>>
                 ELSE LET f == fetched.value
                          r == movie_storage_add_movie(users, movies, user_id, f.title,
                                                       f.year, f.rating, f.poster)
                      IN /\ Cardinality(r.movies) <= MaxRows
                         /\ movies' = r.movies
                         /\ pc' = AfterCall(r.raised)
                         /\ last' = [NoCall EXCEPT !.op = "add_movie",
                                       !.user_id = user_id, !.title = title,
                                       !.fetch = "ok",
                                       !.key = Some(f.title), !.year = f.year,
                                       !.rating = f.rating, !.poster = f.poster,
                                       !.raised = r.raised]
                         /\ UNCHANGED <<users, user_seq, user_id, user_name, viewVars, sess>>

\* Menu entry 3: one pass of the loop of delete_movie.
delete_movie ==
  /\ pc \in {"menu", "delete_movie"}
  /\ \E movies_ \in get_movies(movies, user_id), title \in ask_non_empty(TypedTitles) :
       LET existing == find_exact_key_case_insensitive(movies_, title)
       IN IF Truthy(existing)
          THEN LET r == movie_storage_delete_movie(movies, user_id, existing[1])
               IN /\ movies' = r.movies
                  /\ pc' = AfterCall(r.raised)
                  /\ last' = [NoCall EXCEPT !.op = "delete_movie", !.user_id = user_id,
                                            !.title = title, !.key = existing,
                                            !.raised = r.raised]
                  /\ UNCHANGED <<users, user_seq, user_id, user_name, viewVars, sess>>
          ELSE /\ pc' = "delete_movie"
               /\ last' = [NoCall EXCEPT !.op = "delete_movie", !.user_id = user_id,
                                         !.title = title]
               /\ UNCHANGED <<storeVars, user_id, user_name, viewVars, sess>>

\* Menu entry 4: one pass of the loop of update_movie.
update_movie ==
  /\ pc \in {"menu", "update_movie"}
  /\ \E movies_ \in get_movies(movies, user_id), title \in ask_non_empty(TypedTitles) :
       LET existing == find_exact_key_case_insensitive(movies_, title)
       IN IF ~Truthy(existing)
          THEN /\ pc' = "update_movie"
               /\ last' = [NoCall EXCEPT !.op = "update_movie", !.user_id = user_id,
                                         !.title = title]
               /\ UNCHANGED <<storeVars, user_id, user_name, viewVars, sess>>
          ELSE \E rating \in UpdateRatings :
                 LET r == movie_storage_update_movie(movies, user_id, existing[1], rating)
                 IN /\ movies' = r.movies
                    /\ pc' = AfterCall(r.raised)
                    /\ last' = [NoCall EXCEPT !.op = "update_movie",
                                  !.user_id = user_id, !.title = title,
                                  !.key = existing, !.rating = rating,
                                  !.raised = r.raised]
                    /\ UNCHANGED <<users, user_seq, user_id, user_name, viewVars, sess>>

\* Menu entries 1, 5, 6, 7, 8: they read a snapshot and print.
read_only_view ==
  /\ pc = "menu"
  /\ \E op \in {"list_movies", "stats", "random_movie", "search_movie",
                "movies_sorted_by_rating"} :
       last' = [NoCall EXCEPT !.op = op, !.user_id = user_id]
  /\ UNCHANGED <<storeVars, sessionVars, viewVars, sess>>

\* Menu entry 9: generate_website(movies, app_title=..., filename=...).
menu_generate_website ==
  /\ pc = "menu"
  /\ \E movies_ \in get_movies(movies, user_id), template_exists \in BOOLEAN :
       LET raised == IF ~call_binds(generate_website_params, 1, {"app_title", "filename"})
                     THEN "TypeError"
                     ELSE generate_website(template_exists)
       IN /\ pc' = AfterCall(raised)
          /\ last' = [NoCall EXCEPT !.op = "generate_website", !.user_id = user_id,
                                    !.raised = raised,
                                    !.fetch = IF template_exists THEN "template"
                                              ELSE "no_template"]
  /\ UNCHANGED <<storeVars, user_id, user_name, viewVars, sess>>

\* Menu entry 10.
switch_user ==
  /\ pc = "menu"
  /\ pc' = "select_user"
  /\ last' = [NoCall EXCEPT !.op = "switch_user"]
  /\ UNCHANGED <<storeVars, user_id, user_name, viewVars, sess>>

\* Menu entry 0.
exit_menu ==
  /\ pc = "menu"
  /\ pc' = "exited"
  /\ last' = [NoCall EXCEPT !.op = "exit"]
  /\ UNCHANGED <<storeVars, user_id, user_name, viewVars, sess>>

Init ==
  /\ InitStore /\ InitViews /\ InitSessions
  /\ pc = "select_user" /\ user_id = 0 /\ user_name = <<>>
  /\ last = NoCall

Next ==
  \/ select_or_create_user
  \/ add_movie
  \/ delete_movie
  \/ update_movie
  \/ read_only_view
  \/ menu_generate_website
  \/ switch_user
  \/ exit_menu

Spec == Init /\ [][Next]_vars

----------------------------------------------------------------------------
(* The pure view functions applied to any snapshot *)

\* Keys a snapshot can have: case variants, an untrimmed key, the empty key.
ViewTitles == {<<"a">>, <<"A">>, <<"a", " ">>, <<"b">>, <<>>}
Queries == {<<"a">>, <<"A", " ">>, <<" ", "b">>, <<" ">>, <<"B">>}

ViewEntries ==
  {[title |-> t, year |-> 2010, rating |-> r, poster |-> ""] :
     t \in ViewTitles, r \in Ratings}

\* MovieData values: insertion-ordered, keys unique.
Snapshots ==
  UNION {{d \in [1..n -> ViewEntries] :
            \A i, j \in 1..n : i # j => d[i].title # d[j].title} : n \in 0..MaxSnapshot}

InitViewInputs ==
  /\ InitStore /\ InitSession /\ InitSessions /\ last = NoCall
  /\ snapshot \in Snapshots
  /\ query \in Queries
  /\ result = [op |-> "none", value |-> None]

ApplyFindKey ==
  /\ result' = [op |-> "find_exact_key_case_insensitive",
                value |-> find_exact_key_case_insensitive(snapshot, query)]
  /\ UNCHANGED <<storeVars, sessionVars, last, snapshot, query, sess>>

ApplyComputeStats ==
  /\ result' = [op |-> "compute_stats", value |-> compute_stats(snapshot)]
  /\ UNCHANGED <<storeVars, sessionVars, last, snapshot, query, sess>>

NextViews == ApplyFindKey \/ ApplyComputeStats

SpecViews == InitViewInputs /\ [][NextViews]_vars

\* t is s without its leading and trailing blanks.
IsTrimOf(t, s) ==
  \E i, j \in 0..Len(s) :
    /\ i + j <= Len(s)
    /\ t = SubSeq(s, i + 1, Len(s) - j)
    /\ \A k \in 1..i : s[k] = " "
    /\ \A k \in (Len(s) - j + 1)..Len(s) : s[k] = " "
    /\ t # <<>> => (t[1] # " " /\ t[Len(t)] # " ")

SameLetter(c, d) ==
  c = d \/ {c, d} = {"a", "A"} \/ {c, d} = {"b", "B"}

\* a and b are equal after trimming, up to the case of their letters.
EqualTrimmedIgnoringCase(a, b) ==
  \E ta, tb \in {SubSeq(a, i, j) : i \in 1..(Len(a) + 1), j \in 0..Len(a)}
               \cup {SubSeq(b, i, j) : i \in 1..(Len(b) + 1), j \in 0..Len(b)} :
    /\ IsTrimOf(ta, a) /\ IsTrimOf(tb, b)
    /\ Len(ta) = Len(tb)
    /\ \A k \in 1..Len(ta) : SameLetter(ta[k], tb[k])

MatchingPositions(d, q) ==
  {i \in 1..Len(d) : EqualTrimmedIgnoringCase(d[i].title, q)}

\* C8: find_exact_key_case_insensitive returns the key at the first position
\* of the snapshot whose trimmed, lower-cased form equals that of the query,
\* and None exactly when no key matches; what it returns is a key.
C8_ResolveFirstMatch ==
  result.op = "find_exact_key_case_insensitive" =>
    LET hits == MatchingPositions(snapshot, query)
    IN IF hits = {} THEN result.value = None
       ELSE /\ result.value # None
            /\ \E i \in hits :
                 /\ \A j \in hits : i <= j
                 /\ result.value = Some(snapshot[i].title)
            /\ \E i \in 1..Len(snapshot) : snapshot[i].title = result.value[1]

\* C8 witness: two keys match an untrimmed upper-case query and the first of
\* them, not equal to the query, was returned.
C8_Witness ==
  /\ result.op = "find_exact_key_case_insensitive"
  /\ query = <<"A", " ">>
  /\ Cardinality(MatchingPositions(snapshot, query)) >= 2
  /\ result.value = Some(snapshot[2].title)
  /\ snapshot[1].title = <<"b">>

RatingsIn(d) == {d[i].rating : i \in 1..Len(d)}
TitlesRated(d, r) == {d[i].title : i \in {k \in 1..Len(d) : d[k].rating = r}}
SeqToSet(xs) == {xs[i] : i \in 1..Len(xs)}

\* C9: compute_stats returns None exactly for the empty snapshot; otherwise
\* max and min are the greatest and least rating, best and worst are all the
\* titles of those ratings (non-empty, and equal only when all ratings are
\* equal), and min <= median <= max.
C9_Statistics ==
  result.op = "compute_stats" =>
    /\ (result.value = None) <=> (snapshot = <<>>)
    /\ snapshot # <<>> =>
         LET st == result.value[1]
         IN /\ st.max \in RatingsIn(snapshot) /\ \A r \in RatingsIn(snapshot) : r <= st.max
            /\ st.min \in RatingsIn(snapshot) /\ \A r \in RatingsIn(snapshot) : r >= st.min
            /\ SeqToSet(st.best) = TitlesRated(snapshot, st.max)
            /\ SeqToSet(st.worst) = TitlesRated(snapshot, st.min)
            /\ Len(st.best) = Cardinality(SeqToSet(st.best))
            /\ Len(st.worst) = Cardinality(SeqToSet(st.worst))
            /\ st.best # <<>> /\ st.worst # <<>>
            /\ (SeqToSet(st.best) = SeqToSet(st.worst)) <=> (Cardinality(RatingsIn(snapshot)) = 1)
            /\ st.min * st.median.den <= st.median.num
            /\ st.median.num <= st.max * st.median.den

\* C9 witness: statistics with a two-way tie for the best rating and a single
\* worst title.
C9_Witness ==
  /\ result.op = "compute_stats" /\ result.value # None
  /\ Len(result.value[1].best) = 2
  /\ Len(result.value[1].worst) = 1
  /\ result.value[1].min < result.value[1].max

----------------------------------------------------------------------------
(* Properties of the interactive session *)

\* C1: no owner holds two stored titles that are equal after trimming and
\* lower-casing.
C1_NoCaseInsensitiveDuplicate ==
  \A m1, m2 \in movies :
    (m1.user_id = m2.user_id /\ EqualTrimmedIgnoringCase(m1.title, m2.title))
      => m1 = m2

\* C2: the process never ends on a store or service error (duplicate profile
\* or movie: ValueError; movie not found: KeyError; the two metadata errors).
C2_NoStoreErrorEndsProcess ==
  pc = "crashed" =>
    last.raised \notin {"ValueError", "KeyError", "MovieNotFoundError",
                        "ApiConnectionError"}

\* C10: the generate-website menu entry writes the document when the template
\* exists, fails with the template-missing error and no other when it does
\* not, and never changes the store.
C10_GenerateWebsiteOutcome ==
  [][ last'.op = "generate_website" =>
        /\ last'.raised = (IF last'.fetch = "template" THEN "none"
                           ELSE "FileNotFoundError")
        /\ storeVars' = storeVars
    ]_vars

----------------------------------------------------------------------------
(* Further properties of the store and of the session *)

\* C11: every stored movie row's user_id is the id of a row of users (an
\* add_movie for an id that is no profile's creates no row).
C11_ReferentialIntegrity ==
  \A m \in movies : \E u \in users : u.id = m.user_id

\* C12: every stored title is non-empty and has no blank at either end.
C12_NoEmptyTitle ==
  \A m \in movies :
    m.title # <<>> /\ m.title[1] # " " /\ m.title[Len(m.title)] # " "

\* C12 witness: the metadata service answered with a blank title and the row
\* was stored under the typed title "b" (no answer of the service carries it).
C12_Witness ==
  /\ last.op = "add_movie" /\ last.fetch = "ok" /\ last.raised = "none"
  /\ last.title = <<"b">> /\ last.key = Some(<<"b">>)
  /\ RowsOf(movies, last.user_id, <<"b">>) # {}

\* The active owner's rows whose title equals the typed one after trimming,
\* up to case.
Resolving(ms, uid, title) ==
  {m \in ms : m.user_id = uid /\ EqualTrimmedIgnoringCase(m.title, title)}

\* C13: each pass of delete_movie / update_movie works on the store as it is
\* now: a typed title that resolves to no row of the active owner leaves the
\* store unchanged and the interaction stays in its loop; one that resolves
\* deletes (or re-rates) exactly one of the rows it resolves to, the one whose
\* key was found, and the interaction returns to the menu.  So the interaction
\* returns only with a successful store call, and never when the owner has no
\* rows.
C13_DeleteUpdateInteraction ==
  [][ last'.op \in {"delete_movie", "update_movie"} =>
        LET hits == Resolving(movies, user_id, last'.title)
        IN /\ users' = users /\ user_seq' = user_seq
           /\ user_id' = user_id /\ last'.user_id = user_id
           /\ IF hits = {}
              THEN /\ movies' = movies
                   /\ pc' = last'.op
                   /\ last'.key = None
              ELSE /\ pc' = "menu"
                   /\ last'.raised = "none"
                   /\ \E m \in hits :
                        /\ last'.key = Some(m.title)
                        /\ movies' = IF last'.op = "delete_movie"
                                     THEN movies \ {m}
                                     ELSE (movies \ {m})
                                          \cup {[m EXCEPT !.rating = last'.rating]}
    ]_vars

\* C13 witness: the typed "A" resolved to the stored "a", which was deleted
\* while another row of the owner stays, and the interaction returned.
C13_Witness ==
  /\ last.op = "delete_movie" /\ pc = "menu" /\ last.raised = "none"
  /\ last.title = <<"A">> /\ last.key = Some(<<"a">>)
  /\ RowsOf(movies, user_id, <<"a">>) = {}
  /\ RowsOf(movies, user_id, <<"b">>) # {}

AddedRow(c) ==
  [user_id |-> c.user_id, title |-> c.key[1], year |-> c.year,
   rating |-> c.rating, poster |-> c.poster]

\* The part of C14 that does not depend on the resolved title being new.
AddMovieCommon ==
  /\ last'.user_id = user_id
  /\ users' = users /\ user_seq' = user_seq
  /\ (last'.fetch = "not_called") <=> (Resolving(movies, user_id, last'.title) # {})
  /\ last'.fetch \in {"not_called", "MovieNotFoundError"} => movies' = movies
  /\ last'.fetch = "ApiConnectionError" =>
       /\ last'.key = Some(last'.title)
       /\ last'.year \in ManualYears /\ last'.rating \in ManualRatings
       /\ last'.poster = ""
       /\ RowsOf(movies, user_id, last'.title) = {}
       /\ movies' = movies \cup {AddedRow(last')}

----------------------------------------------------------------------------
(* main.py add_movie, run by two sessions of the same profile on one database:
   every store call is a transaction of its own, and nothing spans the
   read, the check and the insert. *)

ConcTypedTitles == {<<"a">>, <<"A", " ">>}

\* The database already holds the profile both sessions have selected.
InitConc ==
  /\ users = {[id |-> 1, name |-> <<"x">>]} /\ user_seq = 1 /\ movies = {}
  /\ pc = "menu" /\ user_id = 1 /\ user_name = <<"x">>
  /\ last = NoCall
  /\ InitViews /\ InitSessions

\* movies = movie_storage.get_movies(user_id)
conc_get_movies(s) ==
  /\ sess[s].pc = "menu"
  /\ \E movies_ \in get_movies(movies, user_id) :
       sess' = [sess EXCEPT ![s] = [InSession EXCEPT !.pc = "asked",
                                                     !.movies_ = movies_]]
  /\ UNCHANGED <<storeVars, sessionVars, last, viewVars>>

\* title = ask_non_empty(...); if find_exact_key_case_insensitive(movies, title): return
conc_check(s) ==
  /\ sess[s].pc = "asked"
  /\ \E title \in ask_non_empty(ConcTypedTitles) :
       sess' = [sess EXCEPT ![s] =
                  IF Truthy(find_exact_key_case_insensitive(sess[s].movies_, title))
                  THEN [@ EXCEPT !.pc = "menu", !.title = title, !.fetch = "not_called"]
                  ELSE [@ EXCEPT !.pc = "checked", !.title = title]]
  /\ UNCHANGED <<storeVars, sessionVars, last, viewVars>>

\* The try block: the fetch, then the insert of the fetched or manual record.
conc_fetch_insert(s) ==
  /\ sess[s].pc = "checked"
  /\ \E response \in OmdbResponses :
       LET title == sess[s].title
           fetched == fetch_movie_from_omdb(title, response)
       IN IF fetched.raised = "MovieNotFoundError"
          THEN /\ sess' = [sess EXCEPT ![s] = [@ EXCEPT !.pc = "menu",
                                                 !.fetch = "MovieNotFoundError"]]
               /\ UNCHANGED movies
          ELSE \E year \in ManualYears, rating \in ManualRatings :
                 LET manual == fetched.raised = "ApiConnectionError"
                     f == IF manual
                          THEN [title |-> title, year |-> year, rating |-> rating,
                                poster |-> ""]
                          ELSE fetched.value
                     r == movie_storage_add_movie(users, movies, user_id, f.title,
                                                  f.year, f.rating, f.poster)
                 IN /\ Cardinality(r.movies) <= MaxRows
                    /\ movies' = r.movies
                    /\ sess' = [sess EXCEPT ![s] =
                                  [@ EXCEPT !.pc = AfterCall(r.raised),
                                            !.fetch = IF manual THEN "ApiConnectionError"
                                                      ELSE "ok",
                                            !.key = Some(f.title),
                                            !.raised = r.raised]]
  /\ UNCHANGED <<users, user_seq, sessionVars, last, viewVars>>

NextConc ==
  \E s \in Sessions :
    \/ conc_get_movies(s)
    \/ conc_check(s)
    \/ conc_fetch_insert(s)

SpecConc == InitConc /\ [][NextConc]_vars

\* C15: under every interleaving of the two sessions' add_movie steps no two
\* rows have the same exact (user_id, title), and an insert that would make
\* two ends that session with the duplicate error.
C15_ExactUniqueUnderInterleaving ==
  /\ ExactUnique(movies)
  /\ \A s \in Sessions :
       sess[s].raised # "none" =>
         sess[s].raised = "ValueError" /\ sess[s].pc = "crashed"
                                       /\ RowsOf(movies, user_id, sess[s].key[1]) # {}

\* C15 witness: each session inserted the title it had typed and checked (the
\* metadata service was unreachable), and the owner now holds "a" and "A".
C15_Witness ==
  /\ sess[1].fetch = "ApiConnectionError" /\ sess[1].raised = "none"
  /\ sess[2].fetch = "ApiConnectionError" /\ sess[2].raised = "none"
  /\ sess[1].key = Some(<<"a">>) /\ sess[1].title = <<"a">>
  /\ sess[2].key = Some(<<"A">>) /\ sess[2].title = <<"A">>
  /\ \E m1, m2 \in movies :
       /\ m1.user_id = m2.user_id
       /\ m1.title = <<"a">> /\ m2.title = <<"A">>
       /\ EqualTrimmedIgnoringCase(m1.title, m2.title)

====
